---- MODULE Spec2Model ----
(***************************************************************************)
(* CVD risk prediction: the Flask server (api_server.py) and the           *)
(* CVDRiskPredictor class (cvd_risk_predictor.py).                         *)
(*                                                                         *)
(* Numbers are integers (the clinical values in whole units); a            *)
(* standardized value (x - mean) / scale is kept as the exact fraction     *)
(* [num, den].  JSON objects are functions from keys to values, so a       *)
(* missing key is a key outside DOMAIN.  Positions are 1-based; the        *)
(* 0-based patient_index of the code is position - 1.                      *)
(***************************************************************************)
EXTENDS Integers, Sequences, FiniteSets, TLC

VARIABLES
    model,        \* api_server.py: global model
    scaler,       \* api_server.py: global scaler
    self_model,   \* CVDRiskPredictor.model
    self_scaler,  \* CVDRiskPredictor.scaler
    model_file,   \* cvd_model.pkl on disk
    scaler_file,  \* cvd_scaler.pkl on disk
    server,       \* the api_server.py process: start, serving, exited
    cli,          \* run_prediction.py: start, train, save, predict, done, exited
    last,         \* the call being answered: its name, its input, what it returns or raises
    threads       \* a serving process: where its load_model call and its /predict request stand

vars == <<model, scaler, self_model, self_scaler, model_file, scaler_file, server, cli, last, threads>>

-----------------------------------------------------------------------------
(* Feature schema *)

feature_names ==
    << "age", "anaemia", "creatinine_phosphokinase", "diabetes",
       "ejection_fraction", "high_blood_pressure", "platelets",
       "serum_creatinine", "serum_sodium", "sex", "smoking", "time" >>

continuous_vars ==
    << "age", "creatinine_phosphokinase", "ejection_fraction",
       "platelets", "serum_creatinine", "serum_sodium", "time" >>

self_feature_names ==
    << "age", "anaemia", "creatinine_phosphokinase", "diabetes",
       "ejection_fraction", "high_blood_pressure", "platelets",
       "serum_creatinine", "serum_sodium", "sex", "smoking", "time" >>

self_continuous_vars ==
    << "age", "creatinine_phosphokinase", "ejection_fraction",
       "platelets", "serum_creatinine", "serum_sodium", "time" >>

Range(seq) == {seq[i] : i \in DOMAIN seq}

\* list.index(x): the first position holding x
IndexOf(seq, x) == CHOOSE i \in DOMAIN seq : seq[i] = x /\ \A j \in 1..(i - 1) : seq[j] # x

-----------------------------------------------------------------------------
(* Values, exceptions, float() *)

None == [t |-> "None"]
IsNone(x) == x.t = "None"

Num(n) == [t |-> "num", n |-> n, s |-> <<>>]
Str(cs) == [t |-> "str", n |-> 0, s |-> cs]
Null == [t |-> "null", n |-> 0, s |-> <<>>]
List == [t |-> "list", n |-> 0, s |-> <<>>]

Exc(type, msg, field, val) == [type |-> type, msg |-> msg, field |-> field, val |-> val]
Ok(v) == [ok |-> TRUE, val |-> v]
Raise(e) == [ok |-> FALSE, exc |-> e]

Digits == << "0", "1", "2", "3", "4", "5", "6", "7", "8", "9" >>

IsDigit(c) == c \in Range(Digits)

DigitVal(c) == IndexOf(Digits, c) - 1

RECURSIVE ParseDigits(_, _)
ParseDigits(cs, acc) ==
    IF cs = <<>> THEN acc
    ELSE ParseDigits(Tail(cs), 10 * acc + DigitVal(Head(cs)))

\* float(x): a number converts, a string is parsed (ValueError when it is not
\* a numeral), None and a list raise TypeError.
float(v) ==
    CASE v.t = "num" -> Ok(v.n)
      [] v.t = "str" ->
            IF v.s # <<>> /\ \A i \in DOMAIN v.s : IsDigit(v.s[i])
            THEN Ok(ParseDigits(v.s, 0))
            ELSE Raise(Exc("ValueError", "could not convert string to float", "", v.s))
      [] OTHER ->
            Raise(Exc("TypeError", "float() argument must be a string or a real number", "", <<>>))

Rat(n, d) == [num |-> n, den |-> d]

-----------------------------------------------------------------------------
(* StandardScaler and the forest, as the pickled artifacts hold them *)

\* StandardScaler.transform on one row of len(mean_) columns
ScalerTransform(sc, row) ==
    IF IsNone(sc)
    THEN Raise(Exc("AttributeError", "'NoneType' object has no attribute 'transform'", "", <<>>))
    ELSE IF ~sc.fitted
    THEN Raise(Exc("NotFittedError", "This StandardScaler instance is not fitted yet", "", <<>>))
    ELSE IF Len(row) # Len(sc.mean_)
    THEN Raise(Exc("ValueError", "X has a different number of features than StandardScaler expects", "", <<>>))
    ELSE Ok([k \in DOMAIN row |-> Rat(row[k] - sc.mean_[k], sc.scale_[k])])

\* The trees of the forest are stumps, tree t on feature ((t - 1) mod 12) + 1:
\* the class the trees on feature f vote for, and how many they are
StumpVote(m, f, x) ==
    IF x[m.stumps[f].feat].num <= 0 THEN m.stumps[f].left ELSE m.stumps[f].right

TreesOn(m, f) ==
    IF f > m.n_estimators THEN 0 ELSE ((m.n_estimators - f) \div Len(m.stumps)) + 1

RECURSIVE Votes(_, _, _, _)
Votes(m, x, c, f) ==
    IF f = 0 THEN 0
    ELSE Votes(m, x, c, f - 1) + (IF StumpVote(m, f, x) = c THEN TreesOn(m, f) ELSE 0)

\* predict_proba: per class (in classes_ order) the share of the trees voting it
ForestProba(m, x) ==
    [c \in DOMAIN m.classes_ |->
        Rat(Votes(m, x, m.classes_[c], Len(m.stumps)), m.n_estimators)]

\* predict: classes_[argmax(predict_proba)], the first maximum
ForestPredict(m, x) ==
    LET p == ForestProba(m, x)
        best == CHOOSE c \in DOMAIN p :
                    /\ \A d \in DOMAIN p : p[d].num <= p[c].num
                    /\ \A d \in 1..(c - 1) : p[d].num < p[c].num
    IN  m.classes_[best]

\* model.predict(features)[0] and model.predict_proba(features)[0, 1]
ModelPredict(m, x) ==
    IF IsNone(m)
    THEN Raise(Exc("AttributeError", "'NoneType' object has no attribute 'predict'", "", <<>>))
    ELSE IF ~m.fitted
    THEN Raise(Exc("NotFittedError", "This RandomForestClassifier instance is not fitted yet", "", <<>>))
    ELSE IF Len(m.classes_) < 2
    THEN Raise(Exc("IndexError", "index 1 is out of bounds for axis 1", "", <<>>))
    ELSE Ok([prediction |-> ForestPredict(m, x), probability |-> ForestProba(m, x)[2]])

\* f"{probability * 100:.1f}%": tenths of a percent, ties to even
Percent1(p) ==
    LET q == (1000 * p.num) \div p.den
        r == (1000 * p.num) % p.den
    IN  IF 2 * r > p.den \/ (2 * r = p.den /\ q % 2 = 1) THEN q + 1 ELSE q

-----------------------------------------------------------------------------
(* api_server.py *)

\* ExtractFeatures reading patient_data.get(feature, 0): an absent field
\* counts as 0
RECURSIVE ExtractFeaturesDefaulting(_, _, _)
ExtractFeaturesDefaulting(patient_data, i, features) ==
    IF i > Len(feature_names) THEN Ok(features)
    ELSE LET feature == feature_names[i]
             f == IF feature \in DOMAIN patient_data THEN float(patient_data[feature]) ELSE Ok(0)
         IN  IF ~f.ok THEN f
             ELSE ExtractFeaturesDefaulting(patient_data, i + 1, Append(features, f.val))

\* the loop of preprocess_patient_data, lines 63-68, from field i on
RECURSIVE ExtractFeatures(_, _, _)
ExtractFeatures(patient_data, i, features) ==
    IF i > Len(feature_names) THEN Ok(features)
    ELSE LET feature == feature_names[i] IN
         IF feature \notin DOMAIN patient_data
         THEN Raise(Exc("ValueError", "Missing required field: ", feature, <<>>))
         ELSE LET f == float(patient_data[feature]) IN
              IF ~f.ok THEN f
              ELSE ExtractFeatures(patient_data, i + 1, Append(features, f.val))

\* continuous_indices taken as the first columns, without the lookup
continuous_indices_leading == [k \in DOMAIN continuous_vars |-> k]

continuous_indices ==
    [k \in DOMAIN continuous_vars |-> IndexOf(feature_names, continuous_vars[k])]

\* scaled_features[0, continuous_indices] = scaler.transform(features_array[:, continuous_indices])[0]
ScaleContinuous(features_array, sc) ==
    LET t == ScalerTransform(sc, [k \in DOMAIN continuous_indices |-> features_array[continuous_indices[k]]])
    IN  IF ~t.ok THEN t
        ELSE Ok([i \in DOMAIN features_array |->
                    IF i \in Range(continuous_indices)
                    THEN t.val[IndexOf(continuous_indices, i)]
                    ELSE Rat(features_array[i], 1)])

preprocess_patient_data(patient_data, sc) ==
    LET f == ExtractFeatures(patient_data, 1, <<>>) IN
    IF ~f.ok THEN f ELSE ScaleContinuous(f.val, sc)

\* str(e), after an optional prefix
ErrStr(prefix, e) == [prefix |-> prefix, msg |-> e.msg, field |-> e.field, val |-> e.val]

\* a fixed message
Msg(text) == [prefix |-> "", msg |-> text, field |-> "", val |-> <<>>]

\* except ValueError: the class and its subclasses
IsValueError(e) == e.type \in {"ValueError", "NotFittedError"}

\* predict_body with the risk level taken from prediction >= 1
predict_body_threshold(patient_data, m, sc) ==
    LET features == preprocess_patient_data(patient_data, sc) IN
    IF ~features.ok THEN features
    ELSE LET p == ModelPredict(m, features.val) IN
         IF ~p.ok THEN p
         ELSE Ok([cvd_risk |-> IF p.val.prediction = 1 THEN "YES" ELSE "NO",
                  risk_probability |-> p.val.probability,
                  risk_percentage |-> Percent1(p.val.probability),
                  risk_level |-> IF p.val.prediction >= 1 THEN "HIGH RISK" ELSE "LOW RISK",
                  success |-> TRUE])

\* the scaler after a request that calls fit_transform where the code calls
\* transform: refitted on the one row of the request
ScalerAfterFitTransform(patient_data, sc) ==
    LET features == ExtractFeatures(patient_data, 1, <<>>) IN
    IF IsNone(sc) \/ ~features.ok THEN sc
    ELSE [sc EXCEPT !.fitted = TRUE,
                    !.mean_ = [k \in DOMAIN continuous_vars |-> features.val[continuous_indices[k]]],
                    !.scale_ = [k \in DOMAIN continuous_vars |-> 1]]

\* the global scaler after preprocess_patient_data(patient_data):
\* scaler.transform reads mean_ and scale_ and assigns nothing, the features
\* are scaled in a copy, and patient_data is only read
ScalerAfter(patient_data, sc) == sc

\* the try body of predict(), lines 133-151
predict_body(patient_data, m, sc) ==
    LET features == preprocess_patient_data(patient_data, sc) IN
    IF ~features.ok THEN features
    ELSE LET p == ModelPredict(m, features.val) IN
         IF ~p.ok THEN p
         ELSE Ok([cvd_risk |-> IF p.val.prediction = 1 THEN "YES" ELSE "NO",
                  risk_probability |-> p.val.probability,
                  risk_percentage |-> Percent1(p.val.probability),
                  risk_level |-> IF p.val.prediction = 1 THEN "HIGH RISK" ELSE "LOW RISK",
                  success |-> TRUE])

predict(patient_data, m, sc) ==
    IF DOMAIN patient_data = {}
    THEN [status |-> 400, body |-> [error |-> Msg("No data provided")]]
    ELSE LET r == predict_body(patient_data, m, sc) IN
         IF r.ok THEN [status |-> 200, body |-> r.val]
         ELSE IF IsValueError(r.exc)
         THEN [status |-> 400, body |-> [error |-> ErrStr("", r.exc), success |-> FALSE]]
         ELSE [status |-> 500, body |-> [error |-> ErrStr("Prediction failed: ", r.exc), success |-> FALSE]]

\* predict_batch_entry numbering the entries from 1
predict_batch_entry_one_based(i, patient_data, m, sc) ==
    LET features == preprocess_patient_data(patient_data, sc)
        p == ModelPredict(m, features.val)
    IN  IF ~features.ok
        THEN [patient_index |-> i + 1, error |-> ErrStr("", features.exc), success |-> FALSE]
        ELSE IF ~p.ok
        THEN [patient_index |-> i + 1, error |-> ErrStr("", p.exc), success |-> FALSE]
        ELSE [patient_index |-> i + 1,
              cvd_risk |-> IF p.val.prediction = 1 THEN "YES" ELSE "NO",
              risk_probability |-> p.val.probability,
              risk_percentage |-> Percent1(p.val.probability),
              risk_level |-> IF p.val.prediction = 1 THEN "HIGH RISK" ELSE "LOW RISK",
              success |-> TRUE]

\* one turn of the loop of predict_batch(), lines 200-227; i is the 0-based index
predict_batch_entry(i, patient_data, m, sc) ==
    LET features == preprocess_patient_data(patient_data, sc)
        p == ModelPredict(m, features.val)
    IN  IF ~features.ok
        THEN [patient_index |-> i, error |-> ErrStr("", features.exc), success |-> FALSE]
        ELSE IF ~p.ok
        THEN [patient_index |-> i, error |-> ErrStr("", p.exc), success |-> FALSE]
        ELSE [patient_index |-> i,
              cvd_risk |-> IF p.val.prediction = 1 THEN "YES" ELSE "NO",
              risk_probability |-> p.val.probability,
              risk_percentage |-> Percent1(p.val.probability),
              risk_level |-> IF p.val.prediction = 1 THEN "HIGH RISK" ELSE "LOW RISK",
              success |-> TRUE]

\* r.get('success', False)
GetSuccess(r) == IF "success" \in DOMAIN r THEN r.success ELSE FALSE

\* BatchLoop with the try around the whole loop: the first failing record is
\* recorded and ends it
RECURSIVE BatchLoopAborting(_, _, _, _, _)
BatchLoopAborting(patients, k, results, m, sc) ==
    IF k > Len(patients) THEN results
    ELSE LET entry == [patient_index |-> k - 1,
                       error |-> ErrStr("", preprocess_patient_data(patients[k], sc).exc),
                       success |-> FALSE]
         IN  IF ~preprocess_patient_data(patients[k], sc).ok
             THEN Append(results, entry)
             ELSE BatchLoopAborting(patients, k + 1,
                    Append(results, [patient_index |-> k - 1, success |-> TRUE]), m, sc)

RECURSIVE BatchLoop(_, _, _, _, _)
BatchLoop(patients, k, results, m, sc) ==
    IF k > Len(patients) THEN results
    ELSE BatchLoop(patients, k + 1,
                   Append(results, predict_batch_entry(k - 1, patients[k], m, sc)), m, sc)

\* predict_batch testing "not data.get('patients')": an empty list is refused
predict_batch_refusing_empty(data, m, sc) ==
    IF DOMAIN data = {} \/ "patients" \notin DOMAIN data \/ data.patients = <<>>
    THEN [status |-> 400, body |-> [error |-> Msg("No patient data provided")]]
    ELSE LET patients == data.patients
             results == BatchLoop(patients, 1, <<>>, m, sc)
         IN  [status |-> 200,
              body |-> [results |-> results,
                        total |-> Len(patients),
                        successful |-> Cardinality({k \in DOMAIN results : GetSuccess(results[k])})]]

\* predict_batch(), lines 189-233
predict_batch(data, m, sc) ==
    IF DOMAIN data = {} \/ "patients" \notin DOMAIN data
    THEN [status |-> 400, body |-> [error |-> Msg("No patient data provided")]]
    ELSE LET patients == data.patients
             results == BatchLoop(patients, 1, <<>>, m, sc)
         IN  [status |-> 200,
              body |-> [results |-> results,
                        total |-> Len(patients),
                        successful |-> Cardinality({k \in DOMAIN results : GetSuccess(results[k])})]]

-----------------------------------------------------------------------------
(* cvd_risk_predictor.py: training *)

\* SMOTE(random_state=42): imblearn's default k_neighbors
k_neighbors == 5

\* RandomForestClassifier(n_estimators=100, random_state=42)
n_estimators == 100

RECURSIVE SumSeq(_)
SumSeq(xs) == IF xs = <<>> THEN 0 ELSE Head(xs) + SumSeq(Tail(xs))

\* the integer square root
Isqrt(n) == CHOOSE r \in 0..n : r * r <= n /\ (r + 1) * (r + 1) > n

\* DataFrame.drop_duplicates(): the first of equal rows is kept, in order
RECURSIVE drop_duplicates(_)
drop_duplicates(df) ==
    IF df = <<>> THEN <<>>
    ELSE LET init == drop_duplicates(SubSeq(df, 1, Len(df) - 1))
             row == df[Len(df)]
         IN  IF row \in Range(init) THEN init ELSE Append(init, row)

\* the column of one named feature
Column(df, name) == [i \in DOMAIN df |-> df[i].x[IndexOf(self_feature_names, name)]]

\* StandardScaler().fit on df[self.continuous_vars]: per column the mean and
\* the population deviation, a zero deviation replaced by 1
ScalerFit(df) ==
    IF df = <<>>
    THEN Raise(Exc("ValueError", "Found array with 0 sample(s)", "", <<>>))
    ELSE LET n == Len(df)
             mean(k) == SumSeq(Column(df, self_continuous_vars[k])) \div n
             var(k) == LET col == Column(df, self_continuous_vars[k]) IN
                       SumSeq([i \in DOMAIN col |-> (col[i] - mean(k)) * (col[i] - mean(k))]) \div n
         IN  Ok([t |-> "StandardScaler", fitted |-> TRUE,
                 mean_ |-> [k \in DOMAIN self_continuous_vars |-> mean(k)],
                 scale_ |-> [k \in DOMAIN self_continuous_vars |->
                                IF Isqrt(var(k)) = 0 THEN 1 ELSE Isqrt(var(k))]])

\* StandardScaler() before fit
UnfittedScaler == [t |-> "StandardScaler", fitted |-> FALSE, mean_ |-> <<>>, scale_ |-> <<>>]

\* df[self.continuous_vars] = scaler.fit_transform(...), then X and y: each
\* row with the df rows it was computed from
ScaledRows(df, sc) ==
    [i \in DOMAIN df |->
        [x |-> [j \in DOMAIN self_feature_names |->
                    IF self_feature_names[j] \in Range(self_continuous_vars)
                    THEN LET k == IndexOf(self_continuous_vars, self_feature_names[j]) IN
                         Rat(df[i].x[j] - sc.mean_[k], sc.scale_[k])
                    ELSE Rat(df[i].x[j], 1)],
         y |-> df[i].y,
         src |-> {i}]]

Labels(rows) == {rows[i].y : i \in DOMAIN rows}
CountOf(rows, c) == Cardinality({i \in DOMAIN rows : rows[i].y = c})
MajorityCount(rows) ==
    CHOOSE n \in {CountOf(rows, c) : c \in Labels(rows)} :
        \A c \in Labels(rows) : CountOf(rows, c) <= n

\* the classes SMOTE adds rows to, with the number of rows each one lacks
Lacking(rows) == {c \in Labels(rows) : CountOf(rows, c) < MajorityCount(rows)}

\* a synthetic row between row a and its neighbour b of the same class:
\* a + gap * (b - a), the gap of the seeded generator taken as 1/2
Interpolate(a, b) ==
    [x |-> [j \in DOMAIN a.x |->
                Rat(2 * a.x[j].num + (b.x[j].num - a.x[j].num), 2 * a.x[j].den)],
     y |-> a.y,
     src |-> a.src \cup b.src]

\* every sequence of n synthetic rows of class c
RECURSIVE Synthetic(_, _, _)
Synthetic(rows, c, n) ==
    IF n = 0 THEN {<<>>}
    ELSE LET own == {i \in DOMAIN rows : rows[i].y = c} IN
         {Append(front, Interpolate(rows[ab[1]], rows[ab[2]])) :
            front \in Synthetic(rows, c, n - 1),
            ab \in {p \in own \X own : p[1] < p[2]}}

\* SMOTE.fit_resample: every resampled data set the generator may yield, or
\* the ValueError of a single class or of a class of at most k_neighbors rows
RECURSIVE Oversample(_, _)
Oversample(rows, classes) ==
    IF classes = {} THEN {rows}
    ELSE LET c == CHOOSE c \in classes : \A d \in classes : c <= d IN
         {rest \o new :
            rest \in Oversample(rows, classes \ {c}),
            new \in Synthetic(rows, c, MajorityCount(rows) - CountOf(rows, c))}

fit_resample(rows) ==
    IF Cardinality(Labels(rows)) < 2
    THEN {Raise(Exc("ValueError", "The target 'y' needs to have more than 1 class", "", <<>>))}
    ELSE IF \E c \in Lacking(rows) : CountOf(rows, c) <= k_neighbors
    THEN {Raise(Exc("ValueError", "Expected n_neighbors <= n_samples_fit", "", <<>>))}
    ELSE {Ok(r) : r \in Oversample(rows, Lacking(rows))}

\* train_test_split(test_size=0.30, random_state=42): the positions of the
\* test rows, any ceil(0.3 n) of them (the seeded permutation is not modelled)
TestSplits(n) ==
    LET n_test == (3 * n + 9) \div 10 IN
    IF n - n_test = 0 THEN {}
    ELSE {S \in SUBSET (1..n) : Cardinality(S) = n_test}

\* the most frequent label of a set of rows, the smallest on a tie
Majority(rows, idx, default) ==
    IF idx = {} THEN default
    ELSE LET cnt(c) == Cardinality({i \in idx : rows[i].y = c})
             cs == {rows[i].y : i \in idx}
         IN  CHOOSE c \in cs : \A d \in cs : cnt(d) < cnt(c) \/ (cnt(d) = cnt(c) /\ c <= d)

SortedLabels(S) ==
    CHOOSE seq \in [1..Cardinality(S) -> S] :
        \A i, j \in 1..Cardinality(S) : i < j => seq[i] < seq[j]

\* RandomForestClassifier.fit(X_train, y_train): one stump per feature,
\* split at 0, each side voting the majority label of its training rows
ForestFit(rows, train) ==
    [t |-> "RandomForestClassifier", fitted |-> TRUE,
     n_estimators |-> n_estimators,
     classes_ |-> SortedLabels({rows[i].y : i \in train}),
     stumps |-> [f \in DOMAIN self_feature_names |->
                    [feat |-> f,
                     left |-> Majority(rows, {i \in train : rows[i].x[f].num <= 0},
                                       Majority(rows, train, 0)),
                     right |-> Majority(rows, {i \in train : rows[i].x[f].num > 0},
                                        Majority(rows, train, 0))]]]

\* precision_score / recall_score / f1_score (average='binary', pos_label=1)
\* raise on more than two labels, and on two labels without 1
Evaluate(y_test, y_pred) ==
    LET present == y_test \cup y_pred IN
    IF Cardinality(present) > 2
    THEN Raise(Exc("ValueError", "Target is multiclass but average='binary'", "", <<>>))
    ELSE IF Cardinality(present) = 2 /\ 1 \notin present
    THEN Raise(Exc("ValueError", "pos_label=1 is not a valid label", "", <<>>))
    ELSE Ok(present)

\* one way train_model may end: the attributes it leaves, what it returned or
\* raised, the df rows the scaler's fit saw and, per test row, the df rows it
\* was computed from
TrainEnd(sc, m, result, fit_rows, test_rows) ==
    [self_scaler |-> sc, self_model |-> m, result |-> result,
     fit_rows |-> fit_rows, test_rows |-> test_rows]

\* train_model from the split on: fit the forest on the train rows, evaluate
\* on the test rows
FitAndEvaluate(df, sc, rows, test) ==
    LET train == DOMAIN rows \ test
        m == ForestFit(rows, train)
        ev == Evaluate({rows[i].y : i \in test}, {ForestPredict(m, rows[i].x) : i \in test})
    IN  TrainEnd(sc, m, IF ev.ok THEN Ok("self") ELSE ev,
                 DOMAIN df, {rows[i].src : i \in test})

\* train_model(training_data_path), the csv read into df0: every way it may end
train_model(df0, old_model) ==
    LET df == drop_duplicates(df0)
        fit == ScalerFit(df)
    IN  IF ~fit.ok
        THEN {TrainEnd(UnfittedScaler, old_model, fit, {}, {})}
        ELSE UNION {
                IF ~rs.ok
                THEN {TrainEnd(fit.val, old_model, rs, DOMAIN df, {})}
                ELSE IF TestSplits(Len(rs.val)) = {}
                THEN {TrainEnd(fit.val, old_model,
                               Raise(Exc("ValueError", "the resulting train set will be empty", "", <<>>)),
                               DOMAIN df, {})}
                ELSE {FitAndEvaluate(df, fit.val, rs.val, test) : test \in TestSplits(Len(rs.val))}
              : rs \in fit_resample(ScaledRows(df, fit.val))}

-----------------------------------------------------------------------------
(* cvd_risk_predictor.py: the pickled pair, prediction from a sheet *)

Missing == [state |-> "missing", obj |-> None]
Corrupt == [state |-> "corrupt", obj |-> None]
Pickle(o) == [state |-> "pickle", obj |-> o]

\* what a load leaves in (model, scaler), and what it returned or raised
LoadEnd(m, sc, result) == [model |-> m, scaler |-> sc, result |-> result]

OpenError(f) ==
    IF f.state = "missing"
    THEN Exc("FileNotFoundError", "No such file or directory", "", <<>>)
    ELSE Exc("UnpicklingError", "invalid load key", "", <<>>)

\* CVDRiskPredictor.load_model: the model file is read and assigned, then the
\* scaler file
CVDRiskPredictor_load_model(mf, sf, old_model, old_scaler) ==
    IF mf.state # "pickle" THEN LoadEnd(old_model, old_scaler, Raise(OpenError(mf)))
    ELSE IF sf.state # "pickle" THEN LoadEnd(mf.obj, old_scaler, Raise(OpenError(sf)))
    ELSE LoadEnd(mf.obj, sf.obj, Ok("self"))

\* api_server.load_model: both files must exist, then as above
load_model(mf, sf, old_model, old_scaler) ==
    IF mf.state = "missing" \/ sf.state = "missing"
    THEN LoadEnd(old_model, old_scaler,
                 Raise(Exc("FileNotFoundError", "Model files not found", "", <<>>)))
    ELSE IF mf.state # "pickle" THEN LoadEnd(old_model, old_scaler, Raise(OpenError(mf)))
    ELSE IF sf.state # "pickle" THEN LoadEnd(mf.obj, old_scaler, Raise(OpenError(sf)))
    ELSE LoadEnd(mf.obj, sf.obj, Ok("loaded"))

\* df_features after the transform, as .values: per sheet row the 12 values in
\* self.feature_names order, the self.continuous_vars columns replaced
ExcelFeatures(df, sc) ==
    [i \in DOMAIN df.rows |->
        LET t == ScalerTransform(sc, [k \in DOMAIN self_continuous_vars |->
                                        df.rows[i][self_continuous_vars[k]]])
        IN  [j \in DOMAIN self_feature_names |->
                IF self_feature_names[j] \in Range(self_continuous_vars)
                THEN t.val[IndexOf(self_continuous_vars, self_feature_names[j])]
                ELSE Rat(df.rows[i][self_feature_names[j]], 1)]]

\* one row of df_output
ExcelRow(row, m, x) ==
    LET p == ModelPredict(m, x).val
        CVD_RISK == IF p.prediction = 1 THEN "YES" ELSE "NO"
    IN  [row |-> row,
         CVD_RISK |-> CVD_RISK,
         RISK_PROBABILITY |-> Percent1(p.probability),
         RISK_LEVEL |-> IF CVD_RISK = "YES" THEN "HIGH RISK" ELSE "LOW RISK"]

predict_from_excel(df, m, sc) ==
    LET missing_cols == SelectSeq(self_feature_names, LAMBDA col : col \notin df.columns) IN
    IF missing_cols # <<>>
    THEN Raise(Exc("ValueError", "Missing required columns: ", "", missing_cols))
    ELSE IF IsNone(sc) \/ ~sc.fitted
    THEN ScalerTransform(sc, <<>>)
    ELSE IF df.rows = <<>>
    THEN Raise(Exc("ValueError", "Found array with 0 sample(s)", "", <<>>))
    ELSE IF ~ModelPredict(m, ExcelFeatures(df, sc)[1]).ok
    THEN ModelPredict(m, ExcelFeatures(df, sc)[1])
    ELSE Ok([i \in DOMAIN df.rows |-> ExcelRow(df.rows[i], m, ExcelFeatures(df, sc)[i])])

-----------------------------------------------------------------------------
(* Inputs *)

MaxBatch == 3
MaxSheetRows == 2

Fields == Range(feature_names)

\* a heart_failure.csv row: the 12 features in column order, then DEATH_EVENT
Row(age, anaemia, ejection_fraction, time, y) ==
    [x |-> << age, anaemia, 582, 0, ejection_fraction, 0, 265, 2, 130, 1, 0, time >>, y |-> y]

DataBalanced ==
    << Row(60, 1, 20, 4, 1), Row(60, 0, 20, 4, 1), Row(40, 0, 60, 10, 0),
       Row(40, 1, 60, 10, 0), Row(60, 1, 20, 4, 1) >>

DataThreeClass ==
    << Row(70, 1, 30, 2, 1), Row(70, 0, 30, 2, 1), Row(70, 1, 30, 2, 2),
       Row(50, 0, 50, 6, 0), Row(50, 1, 50, 6, 0), Row(50, 0, 50, 6, 2) >>

DataFewMinority ==
    << Row(40, 0, 60, 10, 0), Row(40, 1, 60, 10, 0), Row(50, 0, 50, 8, 0),
       Row(60, 1, 20, 4, 1) >>

DataImbalanced ==
    << Row(40, 0, 60, 10, 0), Row(42, 1, 60, 10, 0), Row(44, 0, 55, 9, 0),
       Row(46, 1, 55, 9, 0), Row(48, 0, 50, 8, 0), Row(50, 1, 50, 8, 0),
       Row(52, 0, 45, 8, 0),
       Row(60, 1, 20, 4, 1), Row(62, 0, 20, 4, 1), Row(64, 1, 25, 3, 1),
       Row(66, 0, 25, 3, 1), Row(68, 1, 30, 2, 1), Row(70, 0, 30, 2, 1) >>

\* DEATH_EVENT holding the labels 1 and 2 only
DataOneTwo ==
    << Row(70, 1, 30, 2, 1), Row(70, 0, 30, 2, 1), Row(60, 1, 40, 4, 1),
       Row(50, 0, 50, 6, 2), Row(50, 1, 50, 6, 2), Row(60, 0, 40, 4, 2) >>

DataEmpty == <<>>

Data(name) ==
    CASE name = "balanced" -> DataBalanced
      [] name = "three_class" -> DataThreeClass
      [] name = "few_minority" -> DataFewMinority
      [] name = "imbalanced" -> DataImbalanced
      [] name = "one_two" -> DataOneTwo
      [] OTHER -> DataEmpty

TrainingFiles == {"balanced", "three_class", "few_minority", "imbalanced", "one_two", "empty"}

\* the pairs an earlier run may have saved
SavedPairs ==
    {<<o.self_model, o.self_scaler>> :
        o \in {e \in train_model(DataBalanced, None) \cup train_model(DataThreeClass, None)
                      \cup train_model(DataOneTwo, None) :
                  e.result.ok}}

TrainedOn(df) == {o.self_model : o \in {e \in train_model(df, None) : e.result.ok}}

DiskStates ==
    {<<Missing, Missing>>} \cup
    UNION {{Corrupt, Missing, Pickle(p[1])} \X {Corrupt, Missing, Pickle(p[2])} : p \in SavedPairs}

\* a patient record of numbers, from its 12 values in schema order
Record(vals) == [f \in Fields |-> Num(vals[IndexOf(feature_names, f)])]

BaseRecord == Record(<< 65, 0, 582, 0, 20, 0, 265, 2, 130, 1, 0, 4 >>)
MeanRecord == Record(<< 50, 1, 582, 0, 40, 1, 265, 2, 130, 0, 1, 7 >>)
EmptyRecord == [f \in {} |-> Null]

NotANumber == Str(<< "a", "b", "c" >>)
Numeral == Str(<< "4", "2" >>)

\* r with field f left out, or holding the value kind
Damage(r, f, kind) ==
    IF kind = "absent" THEN [g \in DOMAIN r \ {f} |-> r[g]]
    ELSE [r EXCEPT ![f] = CASE kind = "text" -> NotANumber
                            [] kind = "numeral" -> Numeral
                            [] kind = "null" -> Null
                            [] OTHER -> List]

OneDefect ==
    {Damage(BaseRecord, f, kind) : f \in Fields, kind \in {"absent", "text", "numeral", "null", "list"}}

TwoDefects ==
    {Damage(Damage(BaseRecord, fg[1], k1), fg[2], k2) :
        fg \in {p \in Fields \X Fields : p[1] # p[2]}, k1 \in {"absent", "text"}, k2 \in {"absent", "text", "null"}}

Patients == {BaseRecord, MeanRecord, EmptyRecord} \cup OneDefect \cup TwoDefects

BatchPatients ==
    {BaseRecord, MeanRecord, EmptyRecord,
     Damage(BaseRecord, "serum_sodium", "absent"),
     Damage(BaseRecord, "age", "text"),
     Damage(BaseRecord, "time", "null")}

SeqsUpTo(S, n) == UNION {[1..k -> S] : k \in 0..n}

\* the JSON bodies posted to /predict-batch
BatchBodies == {EmptyRecord} \cup {[patients |-> ps] : ps \in SeqsUpTo(BatchPatients, MaxBatch)}

\* a sheet row: the number under each column
SheetRow(vals) == [f \in Fields |-> vals[IndexOf(feature_names, f)]]

Sheets ==
    {[columns |-> Fields, rows |-> rs] :
        rs \in SeqsUpTo({SheetRow(<< 65, 0, 582, 0, 20, 0, 265, 2, 130, 1, 0, 4 >>),
                         SheetRow(<< 50, 1, 582, 0, 40, 1, 265, 2, 130, 0, 1, 7 >>)}, MaxSheetRows)}
    \cup {[columns |-> Fields \ {"serum_sodium", "time"}, rows |-> <<>>]}

-----------------------------------------------------------------------------
(* The processes *)

Call(op, req, resp) == [op |-> op, req |-> req, resp |-> resp]

NoCall == Call("none", <<>>, Ok("none"))

\* no call is being answered: the next one may start
Idle == last.op = "none"

\* no load_model call and no request in progress
NoThreads ==
    [loader |-> "idle", reader |-> "idle", patient_data |-> EmptyRecord,
     scaler_read |-> None, model_read |-> None, resp |-> NoCall.resp]

Fresh ==
    /\ model = None
    /\ scaler = None
    /\ self_model = None
    /\ self_scaler = None
    /\ last = NoCall
    /\ threads = NoThreads

\* one process starts, python api_server.py (or a host importing it) or
\* python run_prediction.py; the disk holds what earlier runs left
Init ==
    /\ Fresh
    /\ \/ server = "start" /\ cli = "off"
       \/ server = "off" /\ cli = "start"
    /\ \E d \in DiskStates : model_file = d[1] /\ scaler_file = d[2]

\* no scaler file on disk: none was saved yet, or it was lost
InitTrain ==
    /\ Fresh
    /\ server = "off"
    /\ cli = "start"
    /\ \E d \in DiskStates : model_file = d[1] /\ scaler_file = d[2]
    /\ scaler_file = Missing
    /\ model_file.state = "pickle" => model_file.obj \in TrainedOn(DataBalanced)

\* python api_server.py: load_model(), then app.run; an exception ends the process
LoadModel ==
    /\ Idle
    /\ server = "start"
    /\ LET e == load_model(model_file, scaler_file, model, scaler) IN
        /\ model' = e.model
        /\ scaler' = e.scaler
        /\ server' = IF e.result.ok THEN "serving" ELSE "exited"
        /\ last' = Call("load_model", <<>>, e.result)
    /\ UNCHANGED <<self_model, self_scaler, model_file, scaler_file, cli, threads>>

\* the module imported and app served by a WSGI host: load_model never runs
ServeImported ==
    /\ Idle
    /\ server = "start"
    /\ server' = "serving"
    /\ last' = Call("import", <<>>, Ok("app"))
    /\ UNCHANGED <<model, scaler, self_model, self_scaler, model_file, scaler_file, cli, threads>>

\* POST /predict
Predict ==
    /\ Idle
    /\ server = "serving"
    /\ \E patient_data \in Patients :
        /\ last' = Call("predict", patient_data, predict(patient_data, model, scaler))
        /\ scaler' = ScalerAfter(patient_data, scaler)
    /\ UNCHANGED <<model, self_model, self_scaler, model_file, scaler_file, server, cli, threads>>

\* POST /predict once more with the record just answered, nothing loaded in
\* between; both answers are kept
PredictAgain ==
    /\ last.op = "predict"
    /\ server = "serving"
    /\ last' = Call("predict_again", last.req,
                    [first |-> last.resp, second |-> predict(last.req, model, scaler)])
    /\ scaler' = ScalerAfter(last.req, scaler)
    /\ UNCHANGED <<model, self_model, self_scaler, model_file, scaler_file, server, cli, threads>>

\* POST /predict-batch
PredictBatch ==
    /\ Idle
    /\ server = "serving"
    /\ \E data \in BatchBodies :
        last' = Call("predict_batch", data, predict_batch(data, model, scaler))
    /\ UNCHANGED <<model, scaler, self_model, self_scaler, model_file, scaler_file, server, cli, threads>>

\* predictor.train_model(path)
TrainModel ==
    /\ Idle
    /\ cli = "train"
    /\ \E name \in TrainingFiles : \E e \in train_model(Data(name), self_model) :
        /\ self_scaler' = e.self_scaler
        /\ self_model' = e.self_model
        /\ cli' = IF e.result.ok THEN "save" ELSE "exited"
        /\ last' = Call("train_model", name,
                        [result |-> e.result, fit_rows |-> e.fit_rows, test_rows |-> e.test_rows])
    /\ UNCHANGED <<model, scaler, model_file, scaler_file, server, threads>>

\* predictor.save_model()
SaveModel ==
    /\ Idle
    /\ cli = "save"
    /\ cli' = "predict"
    /\ model_file' = Pickle(self_model)
    /\ scaler_file' = Pickle(self_scaler)
    /\ last' = Call("save_model", <<>>, Ok("saved"))
    /\ UNCHANGED <<model, scaler, self_model, self_scaler, server, threads>>

\* predictor.load_model()
SelfLoadModel ==
    /\ Idle
    /\ cli = "start"
    /\ LET e == CVDRiskPredictor_load_model(model_file, scaler_file, self_model, self_scaler) IN
        /\ self_model' = e.model
        /\ self_scaler' = e.scaler
        /\ cli' = IF e.result.ok THEN "predict"
                  ELSE IF e.result.exc.type = "FileNotFoundError" THEN "train"
                  ELSE "exited"
        /\ last' = Call("self.load_model", <<>>, e.result)
    /\ UNCHANGED <<model, scaler, model_file, scaler_file, server, threads>>

\* predictor.predict_from_excel(path)
PredictFromExcel ==
    /\ Idle
    /\ cli = "predict"
    /\ cli' = "done"
    /\ \E df \in Sheets :
        last' = Call("predict_from_excel", df, predict_from_excel(df, self_model, self_scaler))
    /\ UNCHANGED <<model, scaler, self_model, self_scaler, model_file, scaler_file, server, threads>>

\* the answer is delivered to the caller
Return ==
    /\ ~Idle
    /\ last' = NoCall
    /\ UNCHANGED <<model, scaler, self_model, self_scaler, model_file, scaler_file, server, cli, threads>>

\* the server, and the predictor of run_prediction.py, over the files on disk
Next ==
    \/ LoadModel
    \/ ServeImported
    \/ Predict
    \/ PredictAgain
    \/ PredictBatch
    \/ SelfLoadModel
    \/ PredictFromExcel
    \/ Return

Spec == Init /\ [][Next]_vars

\* the predictor's life: train, save, load
NextTrain ==
    \/ TrainModel
    \/ SaveModel
    \/ SelfLoadModel
    \/ PredictFromExcel
    \/ Return

SpecTrain == InitTrain /\ [][NextTrain]_vars

-----------------------------------------------------------------------------
(* A serving process whose load_model() is called again while requests run *)

\* the pairs on disk that predict
ReloadPairs == {p \in SavedPairs : Len(p[1].classes_) >= 2}

ReloadPatients == {BaseRecord, MeanRecord, Damage(BaseRecord, "serum_sodium", "absent")}

\* python api_server.py over an intact pair of files
InitReload ==
    /\ Fresh
    /\ server = "start"
    /\ cli = "off"
    /\ \E p \in ReloadPairs : model_file = Pickle(p[1]) /\ scaler_file = Pickle(p[2])

\* save_model of a later training run writes a new pair of files
FilesReplaced ==
    /\ server = "serving"
    /\ threads.loader = "idle"
    /\ \E p \in ReloadPairs :
        /\ model_file' = Pickle(p[1])
        /\ scaler_file' = Pickle(p[2])
        /\ <<model_file', scaler_file'>> # <<model_file, scaler_file>>
    /\ UNCHANGED <<model, scaler, self_model, self_scaler, server, cli, last, threads>>

\* load_model(), lines 35-38: both paths exist, or FileNotFoundError
ReloadCheck ==
    /\ server = "serving"
    /\ Idle
    /\ threads.loader = "idle"
    /\ threads' = [threads EXCEPT !.loader =
                      IF model_file.state = "missing" \/ scaler_file.state = "missing"
                      THEN "idle" ELSE "model"]
    /\ UNCHANGED <<model, scaler, self_model, self_scaler, model_file, scaler_file, server, cli, last>>

\* load_model(), lines 40-41: model = pickle.load(f)
ReloadModel ==
    /\ threads.loader = "model"
    /\ model' = IF model_file.state = "pickle" THEN model_file.obj ELSE model
    /\ threads' = [threads EXCEPT !.loader =
                      IF model_file.state = "pickle" THEN "scaler" ELSE "idle"]
    /\ UNCHANGED <<scaler, self_model, self_scaler, model_file, scaler_file, server, cli, last>>

\* load_model(), lines 42-43: scaler = pickle.load(f)
ReloadScaler ==
    /\ threads.loader = "scaler"
    /\ scaler' = IF scaler_file.state = "pickle" THEN scaler_file.obj ELSE scaler
    /\ threads' = [threads EXCEPT !.loader = "idle"]
    /\ UNCHANGED <<model, self_model, self_scaler, model_file, scaler_file, server, cli, last>>

\* POST /predict, lines 126-134: the record is read and preprocessed with
\* the global scaler as it is now
PredictScale ==
    /\ server = "serving"
    /\ Idle
    /\ threads.reader = "idle"
    /\ \E patient_data \in ReloadPatients :
        LET features == preprocess_patient_data(patient_data, scaler) IN
        threads' = [threads EXCEPT
                      !.reader = IF features.ok THEN "scaled" ELSE "answered",
                      !.patient_data = patient_data,
                      !.scaler_read = scaler,
                      !.model_read = None,
                      !.resp = predict(patient_data, model, scaler)]
    /\ UNCHANGED <<model, scaler, self_model, self_scaler, model_file, scaler_file, server, cli, last>>

\* POST /predict, lines 136-151: the features are classified with the global
\* model as it is now, and the answer is built
PredictClassify ==
    /\ threads.reader = "scaled"
    /\ threads' = [threads EXCEPT
                      !.reader = "answered",
                      !.model_read = model,
                      !.resp = predict(threads.patient_data, model, threads.scaler_read)]
    /\ UNCHANGED <<model, scaler, self_model, self_scaler, model_file, scaler_file, server, cli, last>>

\* the answer is sent
PredictReturn ==
    /\ threads.reader = "answered"
    /\ threads' = [NoThreads EXCEPT !.loader = threads.loader]
    /\ UNCHANGED <<model, scaler, self_model, self_scaler, model_file, scaler_file, server, cli, last>>

\* the server started by __main__, then load_model() called again by a
\* thread of the process while the request threads of app.run serve /predict
NextReload ==
    \/ LoadModel
    \/ Return
    \/ FilesReplaced
    \/ ReloadCheck
    \/ ReloadModel
    \/ ReloadScaler
    \/ PredictScale
    \/ PredictClassify
    \/ PredictReturn

SpecReload == InitReload /\ [][NextReload]_vars

-----------------------------------------------------------------------------
(* Properties *)

\* a value float() accepts
Coercible(v) ==
    \/ v.t = "num"
    \/ v.t = "str" /\ v.s # <<>> /\ \A i \in DOMAIN v.s : v.s[i] \in Range(Digits)

Complete(r) == Fields \subseteq DOMAIN r
Valid(r) == Complete(r) /\ \A f \in Fields : Coercible(r[f])

\* READY: a fitted scaler and a fitted model are held, the model one that
\* tells two classes apart (a forest fitted on rows of a single class has no
\* column for class 1)
Ready(m, sc) ==
    /\ ~IsNone(m) /\ ~IsNone(sc)
    /\ m.fitted /\ sc.fitted
    /\ Len(m.classes_) >= 2

\* UNINITIALIZED: no train or load has set both
Uninitialized(m, sc) == IsNone(m) \/ IsNone(sc)

PredictAnswered == last.op = "predict"
BatchAnswered == last.op = "predict_batch" /\ "patients" \in DOMAIN last.req

\* the batch with the record at position i replaced by a valid one
WithValidAt(ps, i) == [ps EXCEPT ![i] = BaseRecord]

\* C1: in a batch, a failing record i gets an error entry tagged with its own
\* index, every other record gets the entry it would get were record i valid,
\* the request succeeds, and with exactly one malformed record among valid
\* ones successful = N - 1.
C1_BatchIsolation ==
    BatchAnswered =>
        LET ps == last.req.patients
            body == last.resp.body
        IN  /\ last.resp.status = 200
            /\ Len(body.results) = Len(ps)
            /\ \A i \in DOMAIN ps :
                /\ ~Complete(ps[i]) => ~GetSuccess(body.results[i])
                /\ ~GetSuccess(body.results[i]) =>
                      /\ body.results[i].patient_index = i - 1
                      /\ "error" \in DOMAIN body.results[i]
                /\ \A j \in DOMAIN ps \ {i} :
                      body.results[j] =
                        predict_batch([patients |-> WithValidAt(ps, i)], model, scaler).body.results[j]
            /\ (/\ Ready(model, scaler)
                /\ \E i \in DOMAIN ps :
                      ~Complete(ps[i]) /\ \A j \in DOMAIN ps \ {i} : Valid(ps[j]))
               => body.successful = Len(ps) - 1

\* a batch of three answered by a loaded server: the middle record lacks
\* serum_sodium, the other two are predicted
C1_Witness ==
    /\ BatchAnswered
    /\ Ready(model, scaler)
    /\ Len(last.req.patients) = 3
    /\ last.req.patients[2] = Damage(BaseRecord, "serum_sodium", "absent")
    /\ Valid(last.req.patients[1]) /\ Valid(last.req.patients[3])
    /\ last.resp.body.successful = 2
    /\ last.resp.body.results[2].patient_index = 1
    /\ last.resp.body.results[2].error.field = "serum_sodium"
    /\ last.resp.body.results[3].success

\* an entry without its index
Unindexed(entry) == [key \in DOMAIN entry \ {"patient_index"} |-> entry[key]]

\* C2: a batch of N records is answered with N entries, the k-th (0-based)
\* tagged patient_index = k and being the outcome of the k-th record, total = N
\* and successful = the number of entries whose success flag is true.
C2_BatchShape ==
    BatchAnswered =>
        LET ps == last.req.patients
            body == last.resp.body
        IN  /\ Len(body.results) = Len(ps)
            /\ body.total = Len(ps)
            /\ \A k \in DOMAIN ps :
                /\ body.results[k].patient_index = k - 1
                /\ Unindexed(body.results[k]) =
                      Unindexed(predict_batch([patients |-> <<ps[k]>>], model, scaler).body.results[1])
            /\ body.successful =
                  Cardinality({k \in DOMAIN ps :
                      "success" \in DOMAIN body.results[k] /\ body.results[k].success})
            /\ 0 <= body.successful /\ body.successful <= body.total

\* a batch of three different records, two of them predicted
C2_Witness ==
    /\ BatchAnswered
    /\ Len(last.req.patients) = 3
    /\ last.req.patients[1] = MeanRecord
    /\ last.req.patients[2] = Damage(BaseRecord, "age", "text")
    /\ last.req.patients[3] = BaseRecord
    /\ last.resp.body.total = 3
    /\ last.resp.body.successful = 2
    /\ ~last.resp.body.results[2].success

\* an answer that reports the pipeline as not ready: an error that is neither
\* a field-level message nor the generic "Prediction failed"
NotReadyAnswer(resp) ==
    /\ resp.status # 200
    /\ "error" \in DOMAIN resp.body
    /\ resp.body.error.prefix # "Prediction failed: "
    /\ resp.body.error.msg \notin {"Missing required field: ", "could not convert string to float",
                                   "No data provided"}

\* C3: a prediction asked of an uninitialized pipeline fails with a not-ready
\* error, distinguishable from field-level and generic prediction errors; a
\* batch is not answered as a success holding per-record failures.
C3_NotReadySurfaces ==
    /\ (PredictAnswered /\ Uninitialized(model, scaler) /\ Valid(last.req))
            => NotReadyAnswer(last.resp)
    /\ (BatchAnswered /\ Uninitialized(model, scaler) /\ last.req.patients # <<>>)
            => last.resp.status # 200


\* C4: a load leaves (model, scaler) either both as loaded from the two files
\* or both as they were before the call, whether it returns or raises.
C4_LoadAtomic ==
    [][/\ last'.op = "load_model" =>
            \/ model' = model /\ scaler' = scaler
            \/ /\ model_file.state = "pickle" /\ scaler_file.state = "pickle"
               /\ model' = model_file.obj /\ scaler' = scaler_file.obj
       /\ last'.op = "self.load_model" =>
            \/ self_model' = self_model /\ self_scaler' = self_scaler
            \/ /\ model_file.state = "pickle" /\ scaler_file.state = "pickle"
               /\ self_model' = model_file.obj /\ self_scaler' = scaler_file.obj
      ]_vars

\* C5: a training run that raises leaves the predictor's scaler and model
\* both as they were before train_model was called.
C5_FailedTrainLeavesPair ==
    [][(last'.op = "train_model" /\ ~last'.resp.result.ok) =>
            (self_scaler' = self_scaler /\ self_model' = self_model)]_vars

\* the first required field, in schema order, that r lacks
FirstAbsent(r) ==
    feature_names[CHOOSE i \in DOMAIN feature_names :
                    /\ feature_names[i] \notin DOMAIN r
                    /\ \A j \in 1..(i - 1) : feature_names[j] \in DOMAIN r]

\* the fields that precede f in schema order
Before(f) == {feature_names[j] : j \in 1..(IndexOf(feature_names, f) - 1)}

\* a 400 answer that names f as missing and carries no prediction
MissingFieldAnswer(resp, f) ==
    /\ resp.status = 400
    /\ ~GetSuccess(resp.body)
    /\ "error" \in DOMAIN resp.body
    /\ resp.body.error.msg = "Missing required field: "
    /\ resp.body.error.field = f
    /\ DOMAIN resp.body \cap {"cvd_risk", "risk_probability", "risk_percentage", "risk_level"} = {}

\* C6 as stated: every record that lacks a required field is answered with a
\* missing-field error naming the first absent field in schema order.
C6_MissingFieldNamed ==
    (PredictAnswered /\ ~Complete(last.req)) => MissingFieldAnswer(last.resp, FirstAbsent(last.req))

\* C6 as amended: a record that lacks a required field gets no prediction; if
\* it is not empty and every field before the first absent one is coercible,
\* the answer is the missing-field error naming that first absent field (so a
\* record lacking only serum_sodium is answered with serum_sodium).
C6_MissingFieldNamedAmended ==
    (PredictAnswered /\ ~Complete(last.req)) =>
        /\ last.resp.status # 200
        /\ ~GetSuccess(last.resp.body)
        /\ "cvd_risk" \notin DOMAIN last.resp.body
        /\ (/\ DOMAIN last.req # {}
            /\ \A g \in Before(FirstAbsent(last.req)) : Coercible(last.req[g]))
           => MissingFieldAnswer(last.resp, FirstAbsent(last.req))

\* a record lacking only serum_sodium, answered with that name
C6_Witness ==
    /\ PredictAnswered
    /\ last.req = Damage(BaseRecord, "serum_sodium", "absent")
    /\ MissingFieldAnswer(last.resp, "serum_sodium")

\* C7: a complete record holding a value that is no number is answered as a
\* field-level client error, not as a missing field and not as the generic
\* "Prediction failed".
C7_InvalidValueIsFieldError ==
    (PredictAnswered /\ Complete(last.req) /\ ~Valid(last.req)) =>
        /\ last.resp.status = 400
        /\ ~GetSuccess(last.resp.body)
        /\ last.resp.body.error.prefix # "Prediction failed: "
        /\ last.resp.body.error.msg # "Missing required field: "

Consistent(label, level) ==
    /\ label \in {"YES", "NO"}
    /\ level \in {"HIGH RISK", "LOW RISK"}
    /\ label = "YES" <=> level = "HIGH RISK"
    /\ label = "NO" <=> level = "LOW RISK"

\* C8: in every successful prediction, of /predict, of /predict-batch and of
\* predict_from_excel, the label is YES exactly when the risk level is HIGH
\* RISK and NO exactly when it is LOW RISK.
C8_LabelMatchesRiskLevel ==
    /\ (PredictAnswered /\ GetSuccess(last.resp.body)) =>
            Consistent(last.resp.body.cvd_risk, last.resp.body.risk_level)
    /\ BatchAnswered =>
            \A k \in DOMAIN last.resp.body.results :
                GetSuccess(last.resp.body.results[k]) =>
                    Consistent(last.resp.body.results[k].cvd_risk, last.resp.body.results[k].risk_level)
    /\ (last.op = "predict_from_excel" /\ last.resp.ok) =>
            \A i \in DOMAIN last.resp.val :
                Consistent(last.resp.val[i].CVD_RISK, last.resp.val[i].RISK_LEVEL)

\* a record the forest puts in class 2, answered NO and LOW RISK
C8_Witness ==
    /\ PredictAnswered
    /\ GetSuccess(last.resp.body)
    /\ ForestPredict(model, preprocess_patient_data(last.req, scaler).val) = 2
    /\ last.resp.body.cvd_risk = "NO"
    /\ last.resp.body.risk_level = "LOW RISK"

BinaryFields == {"anaemia", "diabetes", "high_blood_pressure", "sex", "smoking"}
ContinuousFields == Fields \ BinaryFields

\* the mean and the deviation the scaler fitted for feature f
FittedMean(sc, f) == sc.mean_[IndexOf(self_continuous_vars, f)]
FittedScale(sc, f) == sc.scale_[IndexOf(self_continuous_vars, f)]

\* the vector of 12 the claim describes, x giving the number under each field
SelectivelyScaled(x, sc) ==
    [i \in 1..12 |->
        LET f == feature_names[i] IN
        IF f \in BinaryFields THEN Rat(x[f], 1)
        ELSE Rat(x[f] - FittedMean(sc, f), FittedScale(sc, f))]

\* C9: the vector handed to the classifier has 12 positions in schema order,
\* the 5 binary ones holding the coerced input unchanged, the 7 continuous
\* ones the input standardized with that feature's own mean and deviation; a
\* value equal to the fitted mean gives 0.
C9_SelectiveScaling ==
    /\ (PredictAnswered /\ Valid(last.req) /\ ~IsNone(scaler) /\ scaler.fitted) =>
            LET x == [f \in Fields |-> float(last.req[f]).val]
                vec == preprocess_patient_data(last.req, scaler)
            IN  /\ vec.ok
                /\ vec.val = SelectivelyScaled(x, scaler)
                /\ \A f \in ContinuousFields :
                      x[f] = FittedMean(scaler, f) => vec.val[IndexOf(feature_names, f)].num = 0
    /\ (last.op = "predict_from_excel" /\ last.resp.ok) =>
            \A i \in DOMAIN last.req.rows :
                ExcelFeatures(last.req, self_scaler)[i] = SelectivelyScaled(last.req.rows[i], self_scaler)

\* the record of the training means, scaled: 0 at the continuous positions,
\* the binary inputs 1, 0, 1, 0, 1 unchanged
C9_Witness ==
    /\ PredictAnswered
    /\ last.req = MeanRecord
    /\ ~IsNone(scaler) /\ scaler.fitted
    /\ scaler.scale_[1] > 1
    /\ LET vec == preprocess_patient_data(last.req, scaler).val IN
        /\ \A f \in ContinuousFields : vec[IndexOf(feature_names, f)].num = 0
        /\ <<vec[2], vec[4], vec[6], vec[10], vec[11]>> =
              <<Rat(1, 1), Rat(0, 1), Rat(1, 1), Rat(0, 1), Rat(1, 1)>>

\* C10: no row of the test split, and no row a synthetic test row was
\* interpolated from, is among the rows the scaler was fitted on.
C10_NoHoldoutInFit ==
    last.op = "train_model" =>
        \A src \in last.resp.test_rows : src \cap last.resp.fit_rows = {}


\* C11: a /predict answered while load_model() runs used a scaler and a model
\* of one artifact pair: the two were saved together.
C11_PairSwapAtomic ==
    (threads.reader = "answered" /\ ~IsNone(threads.model_read)) =>
        <<threads.model_read, threads.scaler_read>> \in SavedPairs


C13_EmptyBatch ==
    (last.op = "predict_batch" /\ "patients" \in DOMAIN last.req /\ last.req.patients = <<>>) =>
        /\ last.resp.status = 200
        /\ last.resp.body = [results |-> <<>>, total |-> 0, successful |-> 0]

\* the empty list posted to a server that has loaded nothing, and to one
\* that has: here the latter
C13_Witness ==
    /\ last.op = "predict_batch"
    /\ last.req = [patients |-> <<>>]
    /\ Ready(model, scaler)
    /\ last.resp.status = 200
    /\ last.resp.body.results = <<>>
    /\ last.resp.body.total = 0

\* entry, of a batch, says what answer, of /predict, says
SameOutcome(entry, answer) ==
    /\ GetSuccess(entry) = GetSuccess(answer)
    /\ GetSuccess(entry) =>
          /\ entry.cvd_risk = answer.cvd_risk
          /\ entry.risk_probability = answer.risk_probability
          /\ entry.risk_level = answer.risk_level
    /\ ~GetSuccess(entry) =>
          /\ "error" \in DOMAIN entry
          /\ "error" \in DOMAIN answer
          /\ entry.error = answer.error

\* C14: every entry of a batch says what /predict answers for that record
\* alone, in the same server state: the same success flag, on success the
\* same label, probability and risk level, on failure the same error.
C14_BatchIsPredictPerRecord ==
    BatchAnswered =>
        \A k \in DOMAIN last.req.patients :
            SameOutcome(last.resp.body.results[k],
                        predict(last.req.patients[k], model, scaler).body)

====
